---- MODULE Spec2Model ----
(***************************************************************************)
(* Model of the address book of src/classes.py: the field validators, the  *)
(* Record operations, the AddressBook dictionary and the upcoming-birthday *)
(* query.  Strings are sequences of one-character strings, so that         *)
(* lower(), strptime() and strftime() are computed character by character. *)
(* A date is a record [year, month, day] as datetime.date holds it.        *)
(***************************************************************************)
EXTENDS Integers, Sequences, FiniteSets, TLC

VARIABLES record, data, result

vars == <<record, data, result>>

(* ---------------------------------------------------------------- bounds *)

\* longest phone list the model lets add_phone build
MaxPhones == 3
\* largest horizon (days) the model passes to get_upcoming_birthdays
MaxHorizon == 7

(* --------------------------------------------------------------- strings *)

Digits == <<"0", "1", "2", "3", "4", "5", "6", "7", "8", "9">>
UpperCase == <<"A", "B", "L", "O">>
LowerCase == <<"a", "b", "l", "o">>

Range(s) == {s[i] : i \in 1..Len(s)}

\* str.isdigit(): non-empty and every character a decimal digit
isdigit(s) == Len(s) > 0 /\ \A i \in 1..Len(s) : s[i] \in Range(Digits)

\* str.isalpha(): non-empty and every character a letter
isalpha(s) == Len(s) > 0 /\ \A i \in 1..Len(s) : s[i] \in Range(UpperCase) \cup Range(LowerCase)

LowerChar(c) ==
    IF c \in Range(UpperCase)
    THEN LowerCase[CHOOSE i \in 1..Len(UpperCase) : UpperCase[i] = c]
    ELSE c

\* str.lower()
lower(s) == [i \in 1..Len(s) |-> LowerChar(s[i])]

DigitVal(c) == (CHOOSE i \in 1..Len(Digits) : Digits[i] = c) - 1

RECURSIVE IntOf(_)
\* int() of a string of digits
IntOf(s) == IF Len(s) = 0 THEN 0 ELSE 10 * IntOf(SubSeq(s, 1, Len(s) - 1)) + DigitVal(s[Len(s)])

Pad2(n) == <<Digits[((n \div 10) % 10) + 1], Digits[(n % 10) + 1]>>

Pad4(n) == <<Digits[((n \div 1000) % 10) + 1], Digits[((n \div 100) % 10) + 1],
             Digits[((n \div 10) % 10) + 1], Digits[(n % 10) + 1]>>

(* ----------------------------------------------------------------- dates *)

IsLeap(y) == (y % 4 = 0) /\ ((y % 100 # 0) \/ (y % 400 = 0))

DaysInMonth(y, m) ==
    IF m = 2 THEN (IF IsLeap(y) THEN 29 ELSE 28)
    ELSE IF m \in {4, 6, 9, 11} THEN 30 ELSE 31

Date(y, m, d) == [year |-> y, month |-> m, day |-> d]

\* the date constructor's range check (ValueError when it fails)
ValidDate(y, m, d) == y >= 1 /\ y <= 9999 /\ m \in 1..12 /\ d >= 1 /\ d <= DaysInMonth(y, m)

RECURSIVE DaysBeforeMonth(_, _)
DaysBeforeMonth(y, m) == IF m = 1 THEN 0 ELSE DaysBeforeMonth(y, m - 1) + DaysInMonth(y, m - 1)

\* date.toordinal(): 0001-01-01 is day 1
toordinal(dt) ==
    LET y == dt.year - 1
    IN  y * 365 + (y \div 4) - (y \div 100) + (y \div 400)
        + DaysBeforeMonth(dt.year, dt.month) + dt.day

\* date.weekday(): Monday = 0 .. Sunday = 6
weekday(dt) == (toordinal(dt) + 6) % 7

\* date < date
DateLess(a, b) ==
    \/ a.year < b.year
    \/ a.year = b.year /\ a.month < b.month
    \/ a.year = b.year /\ a.month = b.month /\ a.day < b.day

NextDay(dt) ==
    IF dt.day < DaysInMonth(dt.year, dt.month) THEN Date(dt.year, dt.month, dt.day + 1)
    ELSE IF dt.month < 12 THEN Date(dt.year, dt.month + 1, 1)
    ELSE Date(dt.year + 1, 1, 1)

RECURSIVE AddDays(_, _)
\* date + timedelta(days=n), n >= 0
AddDays(dt, n) == IF n = 0 THEN dt ELSE AddDays(NextDay(dt), n - 1)

\* date.replace(year=y): ValueError when the day does not exist in year y
replace_year(dt, y) ==
    IF ValidDate(y, dt.month, dt.day)
    THEN [ok |-> TRUE, date |-> Date(y, dt.month, dt.day)]
    ELSE [ok |-> FALSE, date |-> dt]

\* datetime.strptime(value, "%d.%m.%Y"): day and month of one or two digits,
\* a year of four digits, separated by dots, and a date that exists
strptime(s) ==
    LET dots == {i \in 1..Len(s) : s[i] = "."}
    IN  IF Cardinality(dots) # 2 THEN [ok |-> FALSE, date |-> Date(1, 1, 1)]
        ELSE
          LET i1 == CHOOSE i \in dots : \A j \in dots : i <= j
              i2 == CHOOSE i \in dots : \A j \in dots : i >= j
              f1 == SubSeq(s, 1, i1 - 1)
              f2 == SubSeq(s, i1 + 1, i2 - 1)
              f3 == SubSeq(s, i2 + 1, Len(s))
          IN  IF /\ isdigit(f1) /\ Len(f1) <= 2
                 /\ isdigit(f2) /\ Len(f2) <= 2
                 /\ isdigit(f3) /\ Len(f3) = 4
                 /\ ValidDate(IntOf(f3), IntOf(f2), IntOf(f1))
              THEN [ok |-> TRUE, date |-> Date(IntOf(f3), IntOf(f2), IntOf(f1))]
              ELSE [ok |-> FALSE, date |-> Date(1, 1, 1)]

\* AddressBook.date_to_string: date.strftime('%d.%m.%Y')
date_to_string(dt) == Pad2(dt.day) \o <<".">> \o Pad2(dt.month) \o <<".">> \o Pad4(dt.year)

(* ------------------------------------------------------ field validators *)

\* the falsy values of "if birthday:" and the absent birthday of a Record
None == <<>>

\* Name._validate_name: ValueError unless the value is alphabetic
Name(value) == IF isalpha(value) THEN "None" ELSE "InvalidFormat"

\* Phone._validate_phone: ValueError unless the value is exactly ten digits
Phone(value) ==
    IF ~isdigit(value) THEN "InvalidFormat"
    ELSE IF ~(Len(value) = 10) THEN "InvalidFormat"
    ELSE "None"

\* Birthday.__init__: ValueError unless strptime accepts the value
Birthday(value) == IF strptime(value).ok THEN "None" ELSE "InvalidFormat"

\* Birthday.as_date
as_date(value) == strptime(value).date

(* ---------------------------------------------------------------- Record *)

\* Record.__init__ (the name already validated by Name)
Record(name) == [name |-> name, phones |-> <<>>, birthday |-> None]

\* Record.add_phone: validate, refuse a duplicate, append
add_phone(rec, phone) ==
    IF Phone(phone) # "None" THEN [rec |-> rec, err |-> "InvalidFormat"]
    ELSE IF \E i \in 1..Len(rec.phones) : rec.phones[i] = phone
         THEN [rec |-> rec, err |-> "DuplicatePhone"]
    ELSE [rec |-> [rec EXCEPT !.phones = Append(@, phone)], err |-> "None"]

\* Record.remove_phone: keep every phone whose value differs
remove_phone(rec, phone) ==
    LET keep(p) == p # phone
    IN  [rec |-> [rec EXCEPT !.phones = SelectSeq(@, keep)], err |-> "None"]

\* Record.edit_phone: the first entry equal to old_phone is replaced by
\* Phone(new_phone); no check that new_phone is not already in the list
edit_phone(rec, old_phone, new_phone) ==
    LET hits == {i \in 1..Len(rec.phones) : rec.phones[i] = old_phone}
    IN  IF hits = {} THEN [rec |-> rec, err |-> "NotFound"]
        ELSE IF Phone(new_phone) # "None" THEN [rec |-> rec, err |-> "InvalidFormat"]
        ELSE LET i == CHOOSE h \in hits : \A j \in hits : h <= j
             IN  [rec |-> [rec EXCEPT !.phones[i] = new_phone], err |-> "None"]

\* Record.find_phone: the first phone with that value, or None
find_phone(rec, phone) ==
    LET hits == {i \in 1..Len(rec.phones) : rec.phones[i] = phone}
    IN  IF hits = {} THEN None
        ELSE <<rec.phones[CHOOSE h \in hits : \A j \in hits : h <= j]>>

\* add_birthday with the falsy-value guard dropped: an empty value clears the field
add_birthday_clears(rec, birthday) ==
    IF birthday = None THEN [rec |-> [rec EXCEPT !.birthday = None], err |-> "None"]
    ELSE IF ~strptime(birthday).ok THEN [rec |-> rec, err |-> "InvalidFormat"]
    ELSE [rec |-> [rec EXCEPT !.birthday = birthday], err |-> "None"]

\* Record.add_birthday: a falsy value is skipped, any other is validated and stored
add_birthday(rec, birthday) ==
    IF birthday = None THEN [rec |-> rec, err |-> "None"]
    ELSE IF Birthday(birthday) # "None" THEN [rec |-> rec, err |-> "InvalidFormat"]
    ELSE [rec |-> [rec EXCEPT !.birthday = birthday], err |-> "None"]

(* ---------------------------------------------------------------- inputs *)

PhoneA == <<"1", "2", "3", "4", "5", "6", "7", "8", "9", "0">>
PhoneB == <<"5", "5", "5", "5", "5", "5", "5", "5", "5", "5">>
PhoneC == <<"1", "1", "1", "2", "2", "2", "3", "3", "3", "3">>
PhoneShort == <<"1", "2", "3">>
PhoneAlpha == <<"1", "2", "3", "4", "5", "a", "7", "8", "9", "0">>

ValidPhones == {PhoneA, PhoneB, PhoneC}
PhoneInputs == ValidPhones \cup {PhoneShort, PhoneAlpha, <<>>}

Bd20Oct == <<"2", "0", ".", "1", "0", ".", "2", "0", "2", "5">>
Bd18Oct == <<"1", "8", ".", "1", "0", ".", "2", "0", "2", "5">>
Bd15Oct == <<"1", "5", ".", "1", "0", ".", "1", "9", "9", "0">>
Bd01Jan == <<"0", "1", ".", "0", "1", ".", "2", "0", "2", "5">>
Bd29Feb == <<"2", "9", ".", "0", "2", ".", "2", "0", "2", "4">>
BdNoLeap == <<"2", "9", ".", "0", "2", ".", "2", "0", "2", "3">>
BdDashes == <<"2", "0", "2", "5", "-", "1", "0", "-", "1", "5">>

ValidBirthdays == {Bd20Oct, Bd18Oct, Bd15Oct, Bd01Jan, Bd29Feb}
BirthdayInputs == ValidBirthdays \cup {BdNoLeap, BdDashes, None}

\* names passed to find, delete and add_bd, and those records are built from
NameInputs == {<<"A", "l">>, <<"a", "l">>, <<"A", "L">>, <<"B", "o">>, <<"b", "o">>}
RecordNames == {<<"A", "l">>, <<"a", "l">>, <<"B", "o">>, <<"B", "0">>}

(* ------------------------------------------- a Record and its operations *)

RecResult(op, a1, a2, err, ret) ==
    [op |-> op, arg1 |-> a1, arg2 |-> a2, err |-> err, ret |-> ret]

Init ==
    /\ record = Record(<<"A", "l">>)
    /\ data = <<>>
    /\ result = RecResult("init", <<>>, <<>>, "None", None)

AddPhone ==
    \E phone \in PhoneInputs :
        LET r == add_phone(record, phone)
        IN  /\ Len(r.rec.phones) <= MaxPhones
            /\ record' = r.rec
            /\ result' = RecResult("add_phone", phone, <<>>, r.err, None)
            /\ UNCHANGED data

RemovePhone ==
    \E phone \in PhoneInputs :
        LET r == remove_phone(record, phone)
        IN  /\ record' = r.rec
            /\ result' = RecResult("remove_phone", phone, <<>>, r.err, None)
            /\ UNCHANGED data

EditPhone ==
    \E old_phone \in PhoneInputs, new_phone \in PhoneInputs :
        LET r == edit_phone(record, old_phone, new_phone)
        IN  /\ record' = r.rec
            /\ result' = RecResult("edit_phone", old_phone, new_phone, r.err, None)
            /\ UNCHANGED data

FindPhone ==
    \E phone \in PhoneInputs :
        /\ result' = RecResult("find_phone", phone, <<>>, "None", find_phone(record, phone))
        /\ UNCHANGED <<record, data>>

AddBirthday ==
    \E birthday \in BirthdayInputs :
        LET r == add_birthday(record, birthday)
        IN  /\ record' = r.rec
            /\ result' = RecResult("add_birthday", birthday, <<>>, r.err, None)
            /\ UNCHANGED data

Next == AddPhone \/ RemovePhone \/ EditPhone \/ FindPhone \/ AddBirthday

Spec == Init /\ [][Next]_vars

(* ----------------------------------------------------------- AddressBook *)

\* the keys of the dictionary, in insertion order
Keys(d) == [i \in 1..Len(d) |-> d[i].key]

\* the position of a key in the dictionary (0 when it is not a key)
IndexOf(d, k) ==
    IF \E i \in 1..Len(d) : d[i].key = k
    THEN CHOOSE i \in 1..Len(d) : d[i].key = k
    ELSE 0

\* add_record that stores the record under its name as given
add_record_nolower(d, rec) ==
    LET k == rec.name
        i == IndexOf(d, k)
    IN  IF i = 0 THEN Append(d, [key |-> k, value |-> rec])
        ELSE [d EXCEPT ![i].value = rec]

\* add_record that drops an existing key and inserts again at the end
add_record_moves(d, rec) ==
    LET k == lower(rec.name)
        keep(e) == e.key # k
    IN  Append(SelectSeq(d, keep), [key |-> k, value |-> rec])

\* AddressBook.add_record: self.data[record.name.value.lower()] = record;
\* a dict assignment to an existing key keeps the key where it is
add_record(d, rec) ==
    LET k == lower(rec.name)
        i == IndexOf(d, k)
    IN  IF i = 0 THEN Append(d, [key |-> k, value |-> rec])
        ELSE [d EXCEPT ![i].value = rec]

\* AddressBook.find: self.data.get(name.lower())
find(d, name) ==
    LET i == IndexOf(d, lower(name))
    IN  IF i = 0 THEN None ELSE <<d[i].value>>

\* AddressBook.delete: self.data.pop(name), the name as given; KeyError otherwise
delete(d, name) ==
    LET keep(e) == e.key # name
    IN  IF IndexOf(d, name) = 0 THEN [data |-> d, err |-> "NotFound"]
        ELSE [data |-> SelectSeq(d, keep), err |-> "None"]

\* AddressBook.find_next_weekday
find_next_weekday(start_date, wd) ==
    LET days_ahead == wd - weekday(start_date)
    IN  IF days_ahead <= 0 THEN AddDays(start_date, days_ahead + 7)
        ELSE AddDays(start_date, days_ahead)

\* adjust_for_weekend that moves only a Sunday
adjust_for_weekend_sunday(birthday) ==
    IF weekday(birthday) >= 6 THEN find_next_weekday(birthday, 0) ELSE birthday

\* AddressBook.adjust_for_weekend
adjust_for_weekend(birthday) ==
    IF weekday(birthday) >= 5 THEN find_next_weekday(birthday, 0) ELSE birthday

RECURSIVE upcoming(_, _, _, _, _)
\* the loop of get_upcoming_birthdays from the i-th value of the dictionary on;
\* out holds what has been yielded, and a ValueError of date.replace ends the
\* generator with the records after it never looked at
upcoming(d, i, today, days, out) ==
    IF i > Len(d) THEN [out |-> out, err |-> "None"]
    ELSE
      LET rec == d[i].value
          bd == rec.birthday
      IN  IF bd = None THEN upcoming(d, i + 1, today, days, out)
          ELSE
            LET this_year == replace_year(as_date(bd), today.year)
            IN  IF ~this_year.ok THEN [out |-> out, err |-> "ValueError"]
                ELSE
                  LET moved == IF DateLess(this_year.date, today)
                               THEN replace_year(this_year.date, today.year + 1)
                               ELSE this_year
                  IN  IF ~moved.ok THEN [out |-> out, err |-> "ValueError"]
                      ELSE
                        LET delta == toordinal(moved.date) - toordinal(today)
                            congratulation ==
                                IF weekday(moved.date) >= 5
                                THEN adjust_for_weekend(moved.date)
                                ELSE moved.date
                        IN  IF 0 <= delta /\ delta <= days
                            THEN upcoming(d, i + 1, today, days,
                                     Append(out, [name |-> rec.name,
                                                  congratulation_date |->
                                                      date_to_string(congratulation)]))
                            ELSE upcoming(d, i + 1, today, days, out)

\* AddressBook.get_upcoming_birthdays, consumed to its end; today is the
\* value date.today() returns
get_upcoming_birthdays(d, today, days) == upcoming(d, 1, today, days, <<>>)

\* the default of the days parameter
DefaultDays == 7

\* AddressBook.show_upcoming_birthdays: list(self.get_upcoming_birthdays())
show_upcoming_birthdays(d, today) == get_upcoming_birthdays(d, today, DefaultDays)

\* find_record of the command layer: the record, or KeyError
find_record(d, name) ==
    IF find(d, name) = None THEN [ret |-> None, err |-> "NotFound"]
    ELSE [ret |-> find(d, name), err |-> "None"]

\* add_bd of the command layer: add_birthday on the record find returns,
\* which is the object the dictionary holds
add_bd(d, name, birthday) ==
    LET f == find_record(d, name)
    IN  IF f.err # "None" THEN [data |-> d, err |-> f.err]
        ELSE LET r == add_birthday(f.ret[1], birthday)
                 i == IndexOf(d, lower(name))
             IN  [data |-> [d EXCEPT ![i].value = r.rec], err |-> r.err]

(* ------------------------------------ the AddressBook and its operations *)

\* the dates date.today() returns in the model: a Wednesday and a Thursday of
\* October, the last Monday of a year, and a day before and one after the
\* 29 February of a leap year
Todays == {Date(2025, 10, 15), Date(2023, 10, 12), Date(2025, 12, 29),
           Date(2024, 2, 27), Date(2024, 3, 4)}

\* the horizons passed to get_upcoming_birthdays
Horizons == {0, 3, MaxHorizon}

NoDate == Date(1, 1, 1)

\* the records a caller builds before add_record: Record(name), then
\* add_birthday with a valid value or none
InputRecords ==
    {add_birthday(Record(name), b).rec :
        name \in {n \in RecordNames : Name(n) = "None"}, b \in ValidBirthdays \cup {None}}

BookResult(op, name, rec, err, ret, out, today, days) ==
    [op |-> op, name |-> name, rec |-> rec, err |-> err, ret |-> ret, out |-> out,
     today |-> today, days |-> days]

InitBook ==
    /\ record = Record(<<"A", "l">>)
    /\ data = <<>>
    /\ result = BookResult("init", <<>>, None, "None", None, <<>>, NoDate, 0)

AddRecord ==
    \E rec \in InputRecords :
        /\ data' = add_record(data, rec)
        /\ result' = BookResult("add_record", rec.name, <<rec>>, "None", None, <<>>, NoDate, 0)
        /\ UNCHANGED record

Find ==
    \E name \in NameInputs :
        /\ result' = BookResult("find", name, None, "None", find(data, name), <<>>, NoDate, 0)
        /\ UNCHANGED <<record, data>>

Delete ==
    \E name \in NameInputs :
        LET r == delete(data, name)
        IN  /\ data' = r.data
            /\ result' = BookResult("delete", name, None, r.err, None, <<>>, NoDate, 0)
            /\ UNCHANGED record

AddBd ==
    \E name \in RecordNames, birthday \in {Bd18Oct, Bd29Feb, BdNoLeap, None} :
        LET r == add_bd(data, name, birthday)
        IN  /\ data' = r.data
            /\ result' = BookResult("add_bd", name, <<birthday>>, r.err, None, <<>>, NoDate, 0)
            /\ UNCHANGED record

GetUpcomingBirthdays ==
    \E today \in Todays, days \in Horizons :
        LET r == get_upcoming_birthdays(data, today, days)
        IN  /\ result' = BookResult("birthdays", <<>>, None, r.err, None, r.out, today, days)
            /\ UNCHANGED <<record, data>>

ShowUpcomingBirthdays ==
    \E today \in Todays :
        LET r == show_upcoming_birthdays(data, today)
        IN  /\ result' = BookResult("birthdays", <<>>, None, r.err, None, r.out, today,
                                    DefaultDays)
            /\ UNCHANGED <<record, data>>

NextBook ==
    AddRecord \/ Find \/ Delete \/ AddBd \/ GetUpcomingBirthdays \/ ShowUpcomingBirthdays

SpecBook == InitBook /\ [][NextBook]_vars

(* ------------------------------------------------- claims about a Record *)

Count(seq, v) == Cardinality({i \in 1..Len(seq) : seq[i] = v})

PhoneOps == {"add_phone", "remove_phone", "edit_phone", "find_phone"}

\* C1: in every reachable state of a Record the phones list holds no two
\* entries with the same value.
C1_NoDuplicatePhones ==
    \A i, j \in 1..Len(record.phones) : i # j => record.phones[i] # record.phones[j]

\* C6: edit_phone(old, new) fails with NotFound when no phone equals old, and
\* with InvalidFormat when new is not a valid phone, the list unchanged in both
\* cases; otherwise the entry is replaced in place (same length, the other
\* entries where they were) and, for old # new, find_phone(new) then returns a
\* phone and find_phone(old) returns none.
C6_EditPhoneContract ==
    [][result'.op = "edit_phone" =>
        LET old == result'.arg1
            new == result'.arg2
        IN  IF Count(record.phones, old) = 0
            THEN result'.err = "NotFound" /\ record'.phones = record.phones
            ELSE IF new \notin ValidPhones
            THEN result'.err = "InvalidFormat" /\ record'.phones = record.phones
            ELSE /\ result'.err = "None"
                 /\ Len(record'.phones) = Len(record.phones)
                 /\ \A i \in 1..Len(record.phones) :
                        record.phones[i] # old => record'.phones[i] = record.phones[i]
                 /\ old # new => /\ find_phone(record', new) = <<new>>
                                 /\ find_phone(record', old) = None
    ]_vars

\* C7: add_phone(value) fails with DuplicatePhone on a record that already
\* holds the value, leaving the list unchanged with exactly one entry of that
\* value; fails with InvalidFormat on an invalid value, leaving the list
\* unchanged; and otherwise appends the value after the earlier entries.
C7_AddPhoneContract ==
    [][result'.op = "add_phone" =>
        LET value == result'.arg1
        IN  IF value \notin ValidPhones
            THEN result'.err = "InvalidFormat" /\ record'.phones = record.phones
            ELSE IF Count(record.phones, value) > 0
            THEN /\ result'.err = "DuplicatePhone"
                 /\ record'.phones = record.phones
                 /\ Count(record'.phones, value) = 1
            ELSE /\ result'.err = "None"
                 /\ record'.phones = Append(record.phones, value)
    ]_vars

\* C8: the birthday is absent at creation and, once set, is never absent
\* again: add_birthday with a valid value overwrites it, with an empty value
\* changes nothing, with an invalid value fails with InvalidFormat and keeps
\* the previous birthday; no phone operation changes the birthday.
C8_BirthdayNeverCleared ==
    /\ (result.op = "init" => record.birthday = None)
    /\ [][/\ record.birthday # None => record'.birthday # None
          /\ result'.op = "add_birthday" =>
                LET value == result'.arg1
                IN  IF value = None
                    THEN result'.err = "None" /\ record'.birthday = record.birthday
                    ELSE IF value \in ValidBirthdays
                    THEN result'.err = "None" /\ record'.birthday = value
                    ELSE result'.err = "InvalidFormat" /\ record'.birthday = record.birthday
          /\ result'.op \in PhoneOps => record'.birthday = record.birthday
       ]_vars

\* C8 case: a birthday is set and an empty add_birthday has just been made
C8_Witness ==
    /\ result.op = "add_birthday"
    /\ result.arg1 = None
    /\ record.birthday \in ValidBirthdays

(* ------------------------------------------- claims about the AddressBook *)

\* the names that are casings of one another, and the lower-cased one of each
NameClasses == {{<<"A", "l">>, <<"a", "l">>, <<"A", "L">>}, {<<"B", "o">>, <<"b", "o">>}}
LowerNames == {<<"a", "l">>, <<"b", "o">>}

SameName(a, b) == \E c \in NameClasses : a \in c /\ b \in c

KeyOf(name) == CHOOSE k \in LowerNames : SameName(k, name)

\* C2: delete(n) succeeds for every n, in any casing, for which find(n) returns
\* a record, after which find(n) returns none and the other entries are as
\* they were; for every other n it fails with NotFound and changes nothing.
C2_DeleteMatchesFind ==
    [][result'.op = "delete" =>
        LET n == result'.name
            others(e) == ~SameName(e.value.name, n)
        IN  IF find(data, n) # None
            THEN /\ result'.err = "None"
                 /\ find(data', n) = None
                 /\ data' = SelectSeq(data, others)
            ELSE result'.err = "NotFound" /\ data' = data
    ]_vars

\* C3: every key is the lower-cased name of the record stored under it, there
\* is at most one record per lower-cased name, and after add_record(r) find(n)
\* returns r for every casing n of r's name.
C3_KeyIsLowerName ==
    /\ \A i \in 1..Len(data) :
          /\ data[i].key \in LowerNames
          /\ SameName(data[i].key, data[i].value.name)
    /\ \A i, j \in 1..Len(data) :
          i # j => ~SameName(data[i].value.name, data[j].value.name)
    /\ result.op = "add_record" =>
          \A n \in NameInputs :
              SameName(n, result.rec[1].name) => find(data, n) = result.rec

\* C3 case: a record has just been added over an earlier record of the same
\* lower-cased name, a second key having been inserted in between
C3_Witness ==
    /\ result.op = "add_record"
    /\ Len(data) = 2
    /\ data[1].value = result.rec[1]
    /\ result.rec[1].name = <<"A", "l">>
    /\ result.rec[1].birthday # None

\* the record of the dictionary an emitted entry names
RecordNamed(name) == data[CHOOSE i \in 1..Len(data) : data[i].value.name = name].value

Emitted(name) == \E k \in 1..Len(result.out) : result.out[k].name = name

\* the birthday's month and day in today's year, or in the next year when
\* that date is before today; CandidateExists says that these dates exist
ThisYear(bd, today) == Date(today.year, as_date(bd).month, as_date(bd).day)

Candidate(bd, today) ==
    IF DateLess(ThisYear(bd, today), today)
    THEN Date(today.year + 1, as_date(bd).month, as_date(bd).day)
    ELSE ThisYear(bd, today)

CandidateExists(bd, today) ==
    /\ as_date(bd).day <= DaysInMonth(today.year, as_date(bd).month)
    /\ Candidate(bd, today).day <= DaysInMonth(Candidate(bd, today).year, as_date(bd).month)

WithinHorizon(bd, today, days) ==
    /\ 0 <= toordinal(Candidate(bd, today)) - toordinal(today)
    /\ toordinal(Candidate(bd, today)) - toordinal(today) <= days

\* C4: the query emits an entry for a record if and only if the record has a
\* birthday and 0 <= (candidate - today).days <= horizonDays (stated for the
\* records whose candidate date exists).
C4_EmittedIffWithinHorizon ==
    result.op = "birthdays" =>
        \A i \in 1..Len(data) :
            LET r == data[i].value
            IN  IF r.birthday = None THEN ~Emitted(r.name)
                ELSE CandidateExists(r.birthday, result.today) =>
                        (Emitted(r.name) <=> WithinHorizon(r.birthday, result.today, result.days))

\* the congratulation date the weekend rule gives for a candidate
Shifted(cand) ==
    IF weekday(cand) = 5 THEN AddDays(cand, 2)
    ELSE IF weekday(cand) = 6 THEN AddDays(cand, 1)
    ELSE cand

\* C5: every emitted congratulation date is the candidate when that is a
\* Monday to Friday, the candidate + 2 days when it is a Saturday and + 1 day
\* when it is a Sunday; it is never a Saturday or Sunday, never before today
\* and never before the candidate.
C5_WeekendShift ==
    result.op = "birthdays" =>
        \A k \in 1..Len(result.out) :
            LET e == result.out[k]
                cand == Candidate(RecordNamed(e.name).birthday, result.today)
                congr == strptime(e.congratulation_date)
            IN  /\ congr.ok
                /\ congr.date = Shifted(cand)
                /\ weekday(congr.date) \notin {5, 6}
                /\ ~DateLess(congr.date, result.today)
                /\ ~DateLess(congr.date, cand)

\* C5 case: a birthday on Saturday 18.10.2025 is emitted as Monday 20.10.2025
C5_Witness ==
    /\ result.op = "birthdays"
    /\ \E k \in 1..Len(result.out) :
          /\ RecordNamed(result.out[k].name).birthday = Bd18Oct
          /\ result.out[k].congratulation_date = Bd20Oct

\* C9: consuming the query never raises and yields an entry for every record
\* that satisfies the horizon rule, also when a record's birthday is a
\* 29 February and the year it is projected onto is not a leap year.
C9_QueryNeverRaises ==
    result.op = "birthdays" =>
        /\ result.err = "None"
        /\ \A i \in 1..Len(data) :
              LET r == data[i].value
              IN  (/\ r.birthday # None
                   /\ CandidateExists(r.birthday, result.today)
                   /\ WithinHorizon(r.birthday, result.today, result.days)) => Emitted(r.name)

\* the position in the dictionary of the record the k-th entry names
Pos(k) == CHOOSE i \in 1..Len(data) : data[i].value.name = result.out[k].name

\* C10: the query emits at most one entry per record, in the key insertion
\* order of the dictionary, where add_record over an existing key keeps the
\* key's position and a new key goes to the end (so delete then add_record
\* moves it to the end); the query changes neither the dictionary nor a record,
\* and two consecutive calls with the same today and horizon yield the same.
C10_OrderAndPurity ==
    /\ [](result.op = "birthdays" =>
            /\ \A k \in 1..Len(result.out) :
                  \E i \in 1..Len(data) : data[i].value.name = result.out[k].name
            /\ \A k, l \in 1..Len(result.out) : k < l => Pos(k) < Pos(l))
    /\ [][/\ result'.op = "add_record" =>
                LET k == KeyOf(result'.name)
                IN  IF \E i \in 1..Len(data) : data[i].key = k
                    THEN Keys(data') = Keys(data)
                    ELSE Keys(data') = Append(Keys(data), k)
          /\ (result'.op = "delete" /\ result'.err = "None") =>
                LET rest(k) == k # result'.name
                IN  Keys(data') = SelectSeq(Keys(data), rest)
          /\ result'.op = "birthdays" =>
                /\ data' = data
                /\ (/\ result.op = "birthdays"
                    /\ result'.today = result.today
                    /\ result'.days = result.days) =>
                        (result'.out = result.out /\ result'.err = result.err)
       ]_vars

\* C10 case: a query over a dictionary of two records has emitted an entry
\* for each of them
C10_Witness ==
    /\ result.op = "birthdays"
    /\ Len(result.out) = 2
    /\ data[1].value.name = <<"a", "l">>
    /\ result.out[1].name = <<"a", "l">>

====
